---- MODULE Spec2Model ----
(***************************************************************************)
(* apps/web/fix_html_entities.py: a batch script that decodes five HTML    *)
(* entities in a fixed list of files.  Text is a sequence of one-character *)
(* strings, the file system is a map from list positions to raw contents.  *)
(***************************************************************************)
EXTENDS Integers, Sequences, FiniteSets, TLC

\* Bounds of the model.
NumFiles == 2
MaxFrags == 3

\* The ordered list of paths (line 8-15), a path being its position.
files_to_fix == [k \in 1..NumFiles |-> k]

------------------------------------------------------------------------------
\* Text and the five substitutions (lines 24-29)

APOS == <<"&", "a", "p", "o", "s", ";">>
QUOT == <<"&", "q", "u", "o", "t", ";">>
LT == <<"&", "l", "t", ";">>
GT == <<"&", "g", "t", ";">>
AMP == <<"&", "a", "m", "p", ";">>

\* The substitutions with line 29 (&amp;) moved to the front.
ReplacementsAmpFirst ==
    << [old |-> AMP, new |-> <<"&">>],
       [old |-> APOS, new |-> <<"'">>],
       [old |-> QUOT, new |-> <<"\"">>],
       [old |-> LT, new |-> <<"<">>],
       [old |-> GT, new |-> <<">">>] >>

\* The substitutions with line 28 (&gt;) left out.
ReplacementsWithoutGt ==
    << [old |-> APOS, new |-> <<"'">>],
       [old |-> QUOT, new |-> <<"\"">>],
       [old |-> LT, new |-> <<"<">>],
       [old |-> AMP, new |-> <<"&">>] >>

\* The five content.replace calls, in source order.
Replacements ==
    << [old |-> APOS, new |-> <<"'">>],
       [old |-> QUOT, new |-> <<"\"">>],
       [old |-> LT, new |-> <<"<">>],
       [old |-> GT, new |-> <<">">>],
       [old |-> AMP, new |-> <<"&">>] >>

StartsWith(s, p) ==
    /\ Len(p) <= Len(s)
    /\ SubSeq(s, 1, Len(p)) = p

Drop(s, n) == SubSeq(s, n + 1, Len(s))

\* str.replace(old, new, 1): only the first occurrence is replaced.
RECURSIVE ReplaceFirstOnly(_, _, _)
ReplaceFirstOnly(s, old, new) ==
    IF Len(s) < Len(old) THEN s
    ELSE IF StartsWith(s, old) THEN new \o Drop(s, Len(old))
    ELSE <<Head(s)>> \o ReplaceFirstOnly(Tail(s), old, new)

\* str.replace(old, new): the non-overlapping occurrences of old, found
\* scanning left to right, are each replaced by new.
RECURSIVE Replace(_, _, _)
Replace(s, old, new) ==
    IF Len(s) < Len(old) THEN s
    ELSE IF StartsWith(s, old) THEN new \o Replace(Drop(s, Len(old)), old, new)
    ELSE <<Head(s)>> \o Replace(Tail(s), old, new)

\* The text after the first k replace calls.
RECURSIVE ReplaceUpTo(_, _)
ReplaceUpTo(s, k) ==
    IF k = 0 THEN s
    ELSE Replace(ReplaceUpTo(s, k - 1), Replacements[k].old, Replacements[k].new)

\* content after line 29, from content after line 21.
Substitute(s) == ReplaceUpTo(s, Len(Replacements))

\* The five entity strings.
Entities == { APOS, QUOT, LT, GT, AMP }

\* Whether one of the five entity strings occurs in s.
HasEntity(s) ==
    \E k \in 1..Len(s) : \E e \in Entities : StartsWith(Drop(s, k - 1), e)

\* Whether s holds a doubly escaped entity: "&amp;" followed at once by
\* "apos;", "quot;", "lt;", "gt;" or "amp;".
DoubleEscaped(s) ==
    \E k \in 1..Len(s) : \E e \in Entities :
        StartsWith(Drop(s, k - 1), AMP \o Tail(e))

\* The literal character an entity stands for.
Literal(e) ==
    CASE e = APOS -> "'"
      [] e = QUOT -> "\""
      [] e = LT -> "<"
      [] e = GT -> ">"
      [] e = AMP -> "&"

\* One pass over s from left to right: an entity found in s itself becomes
\* its literal character, every other character is copied, and nothing
\* produced is looked at again.
RECURSIVE DecodeOnce(_)
DecodeOnce(s) ==
    IF s = <<>> THEN <<>>
    ELSE IF \E e \in Entities : StartsWith(s, e)
         THEN LET e == CHOOSE x \in Entities : StartsWith(s, x)
              IN  <<Literal(e)>> \o DecodeOnce(Drop(s, Len(e)))
         ELSE <<Head(s)>> \o DecodeOnce(Tail(s))

\* Text mode with the default newline=None (lines 20, 33): reading turns
\* "\r\n" and a lone "\r" into "\n"; writing turns "\n" into os.linesep.
RECURSIVE ReadText(_)
ReadText(raw) ==
    IF raw = <<>> THEN <<>>
    ELSE IF StartsWith(raw, <<"\r", "\n">>) THEN <<"\n">> \o ReadText(Drop(raw, 2))
    ELSE IF Head(raw) = "\r" THEN <<"\n">> \o ReadText(Tail(raw))
    ELSE <<Head(raw)>> \o ReadText(Tail(raw))

\* os.linesep: the paths of files_to_fix are Windows drive paths.
linesep == <<"\r", "\n">>

WriteText(text, sep) == Replace(text, <<"\n">>, sep)

\* What a failed f.write can leave behind once open(..., 'w') has truncated
\* the file: any proper prefix of the data, the empty file included.
TornWrites(data) == { SubSeq(data, 1, k) : k \in 0..(Len(data) - 1) }

------------------------------------------------------------------------------
\* State

VARIABLES
    exists,            \* os.path.exists of each path
    disk,              \* the raw content of each file
    pc,                \* the script's position
    run,               \* 1: the first run of the script, 2: a second run
    i,                 \* the position of file_path in files_to_fix
    fixed_count,       \* line 48
    out,               \* the console lines printed by this run
    ops,               \* the file-system calls and returns of this run
    initial,           \* disk before the first run
    prev,              \* disk when this run began
    first_out,         \* the console lines of the first run
    original_content,  \* line 24
    content,           \* lines 21, 25-29
    step               \* how many of lines 25-29 have run on content

vars == << exists, disk, pc, run, i, fixed_count, out, ops,
           initial, prev, first_out, original_content, content, step >>

driver_vars == << exists, disk, pc, run, i, fixed_count, out, ops,
                  initial, prev, first_out >>

text_vars == << original_content, content, step >>

Paths == 1..NumFiles

\* The files the script may find: a missing path, or a file holding one of
\* these contents.
SampleContents ==
    { <<"x", "\r", "\n">>,
      <<"&", "a", "m", "p", ";">>,
      <<"&", "a", "m", "p", ";", "l", "t", ";">>,
      <<"&", "g", "t", ";", "\n", "&", "g", "t", ";">>,
      <<"&", "q", "u", "o", "t", ";", "&", "a", "p", "o", "s", ";">> }

SampleFiles ==
    { [there |-> TRUE, data |-> c] : c \in SampleContents }
        \cup { [there |-> FALSE, data |-> <<>>] }

Line(kind, path, count) == [kind |-> kind, path |-> path, count |-> count]

Op(op, path, ok) == [op |-> op, path |-> path, ok |-> ok]

Init ==
    /\ \E fs \in [Paths -> SampleFiles] :
        /\ exists = [p \in Paths |-> fs[p].there]
        /\ disk = [p \in Paths |-> fs[p].data]
    /\ pc = "banner"
    /\ run = 1
    /\ i = 1
    /\ fixed_count = 0
    /\ out = <<>>
    /\ ops = <<>>
    /\ initial = disk
    /\ prev = disk
    /\ first_out = <<>>
    /\ original_content = <<>>
    /\ content = <<>>
    /\ step = 0

------------------------------------------------------------------------------
\* The driver (lines 44-57)

\* print("Starting HTML entity replacement...")
Banner ==
    /\ pc = "banner"
    /\ out' = Append(out, Line("banner", 0, 0))
    /\ pc' = "separator"
    /\ UNCHANGED << exists, disk, run, i, fixed_count, ops,
                    initial, prev, first_out, text_vars >>

\* print("=" * 60); fixed_count = 0; the loop begins
Separator ==
    /\ pc = "separator"
    /\ out' = Append(out, Line("separator", 0, 0))
    /\ fixed_count' = 0
    /\ i' = 1
    /\ pc' = "loop"
    /\ UNCHANGED << exists, disk, run, ops,
                    initial, prev, first_out, text_vars >>

\* The driver without the test of line 50: fix_html_entities is called on
\* the missing path, open raises and the except branch reports it.
NotFoundCallsAnyway ==
    /\ pc = "loop"
    /\ i <= Len(files_to_fix)
    /\ ~exists[files_to_fix[i]]
    /\ ops' = ops \o << Op("call", files_to_fix[i], TRUE),
                        Op("open_r", files_to_fix[i], FALSE),
                        Op("return", files_to_fix[i], FALSE) >>
    /\ out' = Append(out, Line("error", files_to_fix[i], 0))
    /\ i' = i + 1
    /\ UNCHANGED << exists, disk, pc, run, fixed_count,
                    initial, prev, first_out, text_vars >>

\* os.path.exists(file_path) is False: the else branch of line 53
NotFound ==
    /\ pc = "loop"
    /\ i <= Len(files_to_fix)
    /\ ~exists[files_to_fix[i]]
    /\ ops' = Append(ops, Op("exists", files_to_fix[i], FALSE))
    /\ out' = Append(out, Line("not found", files_to_fix[i], 0))
    /\ i' = i + 1
    /\ UNCHANGED << exists, disk, pc, run, fixed_count,
                    initial, prev, first_out, text_vars >>

\* The loop header and the test of line 50 for a path that exists.
Calls(file_path) ==
    /\ pc = "loop"
    /\ i <= Len(files_to_fix)
    /\ file_path = files_to_fix[i]
    /\ exists[file_path]

\* The driver with line 52 outside the if of line 51: every call counts.
ReturnsAlwaysCounts(file_path, calls, kind, value) ==
    /\ ops' = ops \o << Op("exists", file_path, TRUE), Op("call", file_path, TRUE) >>
                  \o calls \o << Op("return", file_path, value) >>
    /\ out' = Append(out, Line(kind, file_path, 0))
    /\ fixed_count' = fixed_count + 1
    /\ i' = i + 1
    /\ UNCHANGED << exists, pc, run, initial, prev, first_out, text_vars >>

\* What every return of fix_html_entities(file_path) does to the driver:
\* the calls made are logged, one line is printed, line 52 counts a True.
Returns(file_path, calls, kind, value) ==
    /\ ops' = ops \o << Op("exists", file_path, TRUE), Op("call", file_path, TRUE) >>
                  \o calls \o << Op("return", file_path, value) >>
    /\ out' = Append(out, Line(kind, file_path, 0))
    /\ fixed_count' = IF value THEN fixed_count + 1 ELSE fixed_count
    /\ i' = i + 1
    /\ UNCHANGED << exists, pc, run, initial, prev, first_out, text_vars >>

\* A read failure that the except clause does not catch: the script dies
\* with a traceback.
ReadErrorUncaught ==
    \E file_path \in Paths :
        /\ Calls(file_path)
        /\ ops' = ops \o << Op("exists", file_path, TRUE), Op("call", file_path, TRUE),
                            Op("open_r", file_path, FALSE) >>
        /\ pc' = "crashed"
        /\ UNCHANGED << exists, disk, run, i, fixed_count, out,
                        initial, prev, first_out, text_vars >>

\* open(file_path, 'r') or f.read() raises (permissions, not UTF-8, ...):
\* the except branch prints the error and returns False.
ReadError ==
    \E file_path \in Paths :
        /\ Calls(file_path)
        /\ disk' = disk
        /\ Returns(file_path, << Op("open_r", file_path, FALSE) >>, "error", FALSE)

\* fix_html_entities without the test of line 32: an unchanged text is
\* written back and reported as fixed.
NoChangeRewrites ==
    \E file_path \in Paths :
        /\ Calls(file_path)
        /\ Substitute(ReadText(disk[file_path])) = ReadText(disk[file_path])
        /\ disk' = [disk EXCEPT ![file_path] =
                        WriteText(Substitute(ReadText(disk[file_path])), linesep)]
        /\ Returns(file_path,
                   << Op("open_r", file_path, TRUE), Op("open_w", file_path, TRUE),
                      Op("write", file_path, TRUE) >>,
                   "fixed", TRUE)

\* The text is read, the five substitutions change nothing: lines 37-39.
NoChange ==
    \E file_path \in Paths :
        /\ Calls(file_path)
        /\ Substitute(ReadText(disk[file_path])) = ReadText(disk[file_path])
        /\ disk' = disk
        /\ Returns(file_path, << Op("open_r", file_path, TRUE) >>, "no change", FALSE)

\* fix_html_entities without the return True of line 36: the file is
\* written and reported, the driver sees None and does not count it.
FixedReturnsNothing ==
    \E file_path \in Paths :
        /\ Calls(file_path)
        /\ Substitute(ReadText(disk[file_path])) # ReadText(disk[file_path])
        /\ disk' = [disk EXCEPT ![file_path] =
                        WriteText(Substitute(ReadText(disk[file_path])), linesep)]
        /\ ops' = ops \o << Op("exists", file_path, TRUE), Op("call", file_path, TRUE),
                            Op("open_r", file_path, TRUE), Op("open_w", file_path, TRUE),
                            Op("write", file_path, TRUE), Op("return", file_path, FALSE) >>
        /\ out' = Append(out, Line("fixed", file_path, 0))
        /\ i' = i + 1
        /\ UNCHANGED << exists, pc, run, fixed_count, initial, prev, first_out, text_vars >>

\* The text changed and is written back: lines 32-36.
Fixed ==
    \E file_path \in Paths :
        /\ Calls(file_path)
        /\ Substitute(ReadText(disk[file_path])) # ReadText(disk[file_path])
        /\ disk' = [disk EXCEPT ![file_path] =
                        WriteText(Substitute(ReadText(disk[file_path])), linesep)]
        /\ Returns(file_path,
                   << Op("open_r", file_path, TRUE), Op("open_w", file_path, TRUE),
                      Op("write", file_path, TRUE) >>,
                   "fixed", TRUE)

\* The text changed and open(file_path, 'w') raises: nothing is truncated.
OpenForWriteError ==
    \E file_path \in Paths :
        /\ Calls(file_path)
        /\ Substitute(ReadText(disk[file_path])) # ReadText(disk[file_path])
        /\ disk' = disk
        /\ Returns(file_path,
                   << Op("open_r", file_path, TRUE), Op("open_w", file_path, FALSE) >>,
                   "error", FALSE)

\* fix_html_entities with the print of line 35 moved before the write: a
\* failed write leaves a "fixed" line and an error line.
WriteErrorAfterFixedLine ==
    \E file_path \in Paths :
        /\ Calls(file_path)
        /\ Substitute(ReadText(disk[file_path])) # ReadText(disk[file_path])
        /\ \E torn \in TornWrites(WriteText(Substitute(ReadText(disk[file_path])), linesep)) :
            disk' = [disk EXCEPT ![file_path] = torn]
        /\ ops' = ops \o << Op("exists", file_path, TRUE), Op("call", file_path, TRUE),
                            Op("open_r", file_path, TRUE), Op("open_w", file_path, TRUE),
                            Op("write", file_path, FALSE), Op("return", file_path, FALSE) >>
        /\ out' = out \o << Line("fixed", file_path, 0), Line("error", file_path, 0) >>
        /\ i' = i + 1
        /\ UNCHANGED << exists, pc, run, fixed_count, initial, prev, first_out, text_vars >>

\* The text changed, open(file_path, 'w') truncated the file and f.write (or
\* the flush when the with block closes f) raises.
WriteError ==
    \E file_path \in Paths :
        /\ Calls(file_path)
        /\ Substitute(ReadText(disk[file_path])) # ReadText(disk[file_path])
        /\ \E torn \in TornWrites(WriteText(Substitute(ReadText(disk[file_path])), linesep)) :
            disk' = [disk EXCEPT ![file_path] = torn]
        /\ Returns(file_path,
                   << Op("open_r", file_path, TRUE), Op("open_w", file_path, TRUE),
                      Op("write", file_path, FALSE) >>,
                   "error", FALSE)

\* The loop is exhausted: print("=" * 60)
ClosingSeparator ==
    /\ pc = "loop"
    /\ i > Len(files_to_fix)
    /\ out' = Append(out, Line("separator", 0, 0))
    /\ pc' = "summary"
    /\ UNCHANGED << exists, disk, run, i, fixed_count, ops,
                    initial, prev, first_out, text_vars >>

\* print(f"Completed! Fixed {fixed_count} files.")
Summary ==
    /\ pc = "summary"
    /\ out' = Append(out, Line("summary", 0, fixed_count))
    /\ pc' = "done"
    /\ UNCHANGED << exists, disk, run, i, fixed_count, ops,
                    initial, prev, first_out, text_vars >>

\* The script is started again on the same file set.
Rerun ==
    /\ pc = "done"
    /\ run = 1
    /\ run' = 2
    /\ pc' = "banner"
    /\ first_out' = out
    /\ prev' = disk
    /\ out' = <<>>
    /\ ops' = <<>>
    /\ i' = 1
    /\ fixed_count' = 0
    /\ UNCHANGED << exists, disk, initial, text_vars >>

\* One step of a run of the script.
RunStep ==
    \/ Banner
    \/ Separator
    \/ NotFound
    \/ ReadError
    \/ NoChange
    \/ Fixed
    \/ OpenForWriteError
    \/ WriteError
    \/ ClosingSeparator
    \/ Summary

Next == RunStep

\* One run of the script.
Spec == Init /\ [][Next]_vars

\* The interpreter runs the script to its end: a run never stops half way.
FairSpec == Spec /\ WF_vars(Next)

NextTwice == RunStep \/ Rerun

\* Two runs in succession on the same file set.
TwiceSpec == Init /\ [][NextTwice]_vars

------------------------------------------------------------------------------
\* The substitutions alone (lines 24-29), over bounded texts

Frags ==
    { <<"&">>,
      <<";">>,
      <<"a", "m", "p", ";">>,
      <<"l", "t", ";">>,
      <<"g", "t", ";">>,
      <<"a", "p", "o", "s", ";">>,
      <<"q", "u", "o", "t", ";">>,
      <<"&", "a", "m", "p", ";">>,
      <<"x">>,
      <<"&", "a", "m">> }

RECURSIVE Concats(_)
Concats(n) ==
    IF n = 0 THEN { <<>> }
    ELSE LET shorter == Concats(n - 1)
         IN  shorter \cup { s \o f : s \in shorter, f \in Frags }

Example ==
    <<"H", "e", " ", "s", "a", "i", "d", " ", "&", "q", "u", "o", "t", ";", "h", "i", "&", "a", "p", "o", "s", ";", " ", "&", "a", "m", "p", ";", " ", "l", "e", "f", "t", "&", "l", "t", ";", "n", "o", "w", "&", "g", "t", ";">>

Expected ==
    <<"H", "e", " ", "s", "a", "i", "d", " ", "\"", "h", "i", "'", " ", "&", " ", "l", "e", "f", "t", "<", "n", "o", "w", ">">>

Texts == Concats(MaxFrags) \cup { Example }

TextInit ==
    /\ original_content \in Texts
    /\ content = original_content
    /\ step = 0
    /\ exists = [p \in Paths |-> FALSE]
    /\ disk = [p \in Paths |-> <<>>]
    /\ pc = "text"
    /\ run = 1
    /\ i = 1
    /\ fixed_count = 0
    /\ out = <<>>
    /\ ops = <<>>
    /\ initial = disk
    /\ prev = disk
    /\ first_out = <<>>

\* The next of the five content.replace calls.
ReplaceCall ==
    /\ pc = "text"
    /\ step < Len(Replacements)
    /\ content' = Replace(content, Replacements[step + 1].old, Replacements[step + 1].new)
    /\ step' = step + 1
    /\ UNCHANGED << original_content, driver_vars >>

TextSpec == TextInit /\ [][ReplaceCall]_vars

------------------------------------------------------------------------------
\* Properties

StatusKinds == { "fixed", "no change", "not found", "error" }

\* The positions of out that hold a status line for path p.
StatusLines(p) ==
    { k \in 1..Len(out) : out[k].path = p /\ out[k].kind \in StatusKinds }

Visited(p) == StatusLines(p) # {}

Reported(p, kind) == \E k \in StatusLines(p) : out[k].kind = kind

Did(p, op, ok) == \E k \in 1..Len(ops) : ops[k] = Op(op, p, ok)

HowOften(p, op, ok) == Cardinality({ k \in 1..Len(ops) : ops[k] = Op(op, p, ok) })

ErrorFree(lines) == \A k \in 1..Len(lines) : lines[k].kind # "error"

\* During a step of the loop on an existing file whose read succeeds.
ReadsFile(p) ==
    /\ Calls(p)
    /\ \E k \in (Len(ops) + 1)..Len(ops') : ops'[k] = Op("open_r", p, TRUE)

C3_NoEntityNoWrite ==
    [][ \A p \in Paths :
          (ReadsFile(p) /\ ~HasEntity(disk[p])) =>
              /\ disk' = disk
              /\ fixed_count' = fixed_count
              /\ out' = Append(out, Line("no change", p, 0))
              /\ ops' = ops \o << Op("exists", p, TRUE), Op("call", p, TRUE),
                                  Op("open_r", p, TRUE), Op("return", p, FALSE) >>
      ]_vars

\* A file without entities was processed and reported "no change".
C3_Witness ==
    \E p \in Paths :
        /\ exists[p]
        /\ ~HasEntity(prev[p])
        /\ Reported(p, "no change")
        /\ Did(p, "open_r", TRUE)

\* C4: after the five replace calls the text is the original with exactly
\* the entities of the original decoded, once: nothing a substitution
\* produced is decoded again.  The example of the specification decodes to
\* its expected text.
C4_SingleLevelDecoding ==
    (pc = "text" /\ step = Len(Replacements)) =>
        /\ content = DecodeOnce(original_content)
        /\ (original_content = Example => content = Expected)
        /\ (original_content = AMP \o Tail(LT) => content = LT)

\* "&amp;lt;" has gone through the five calls and is "&lt;".
C4_Witness ==
    /\ pc = "text"
    /\ step = Len(Replacements)
    /\ original_content = AMP \o Tail(LT)
    /\ content = LT

\* C5: every run that starts ends with every path of files_to_fix visited,
\* the closing separator and the summary line printed, whatever the
\* outcomes of the files were.
C5_BatchCompletes ==
    (pc = "banner") ~>
        ( /\ pc = "done"
          /\ \A p \in Paths : Visited(p)
          /\ Len(out) >= 2
          /\ out[Len(out) - 1].kind = "separator"
          /\ out[Len(out)].kind = "summary" )

\* A run ended although a file before the last one failed.
C5_Witness ==
    /\ pc = "done"
    /\ \E p \in Paths : p < NumFiles /\ Reported(p, "error")
    /\ \A p \in Paths : Visited(p)

\* C6: for a path that does not exist the driver prints "not found", does
\* not call fix_html_entities (no open for reading or writing, no file
\* created or changed), leaves fixed_count as it was and goes on to the
\* next path.
C6_NotFoundSkipped ==
    [][ (pc = "loop" /\ i <= Len(files_to_fix) /\ ~exists[files_to_fix[i]]) =>
          /\ out' = Append(out, Line("not found", files_to_fix[i], 0))
          /\ ops' = Append(ops, Op("exists", files_to_fix[i], FALSE))
          /\ disk' = disk
          /\ exists' = exists
          /\ fixed_count' = fixed_count
          /\ i' = i + 1
          /\ pc' = "loop"
      ]_vars

\* A missing path was reported and a later path was still processed.
C6_Witness ==
    \E p, q \in Paths :
        /\ p < q
        /\ ~exists[p]
        /\ Reported(p, "not found")
        /\ Reported(q, "fixed")
        /\ fixed_count = 1

\* C7: in a run every file is opened for writing at most once, and only
\* when the text after the five substitutions differs from the text read,
\* which is when the file held one of the five entities.
C7_RewrittenAtMostOnce ==
    \A p \in Paths :
        /\ HowOften(p, "open_w", TRUE) + HowOften(p, "open_w", FALSE) <= 1
        /\ (Did(p, "open_w", TRUE) \/ Did(p, "open_w", FALSE)) =>
               /\ Substitute(ReadText(prev[p])) # ReadText(prev[p])
               /\ HasEntity(prev[p])
        /\ (disk[p] # prev[p]) => Did(p, "open_w", TRUE)

\* A file was overwritten.
C7_Witness ==
    \E p \in Paths :
        /\ HowOften(p, "open_w", TRUE) = 1
        /\ Did(p, "write", TRUE)
        /\ disk[p] # prev[p]

\* C8: fixed_count is the number of visited paths reported "fixed", which
\* are the paths overwritten with changed content; it is at most the length
\* of files_to_fix, and the summary line carries it.
C8_FixedCountCountsFixed ==
    /\ fixed_count = Cardinality({ p \in Paths : Reported(p, "fixed") })
    /\ fixed_count <= Len(files_to_fix)
    /\ fixed_count >= 0
    /\ \A p \in Paths :
        Reported(p, "fixed") <=>
            (Did(p, "write", TRUE) /\ Did(p, "return", TRUE) /\ disk[p] # prev[p])
    /\ (pc = "done") => out[Len(out)] = Line("summary", 0, fixed_count)

\* A run ended with one file fixed and another one failed.
C8_Witness ==
    /\ pc = "done"
    /\ fixed_count = 1
    /\ \E p, q \in Paths : Reported(p, "fixed") /\ Reported(q, "error")

\* C9: the console shows the banner, a separator, one status line per path
\* in list order, a separator and the summary, in this order; no path has
\* no line or two lines once the loop has passed it.
C9_OutputOrder ==
    /\ \A k \in 1..Len(out) :
        \/ k = 1 /\ out[k] = Line("banner", 0, 0)
        \/ k = 2 /\ out[k] = Line("separator", 0, 0)
        \/ /\ k >= 3
           /\ k <= Len(files_to_fix) + 2
           /\ out[k].kind \in StatusKinds
           /\ out[k].path = files_to_fix[k - 2]
        \/ k = Len(files_to_fix) + 3 /\ out[k] = Line("separator", 0, 0)
        \/ k = Len(files_to_fix) + 4 /\ out[k].kind = "summary"
    /\ (pc = "banner") => Len(out) = 0
    /\ (pc = "separator") => Len(out) = 1
    /\ (pc = "loop") => Len(out) = i + 1
    /\ (pc = "summary") => Len(out) = Len(files_to_fix) + 3
    /\ (pc = "done") => Len(out) = Len(files_to_fix) + 4
    /\ \A p \in Paths :
        Cardinality(StatusLines(p)) =
            IF pc \in { "banner", "separator" } \/ (pc = "loop" /\ p >= i) THEN 0 ELSE 1

\* A run ended having printed an error line and, later, a "fixed" line.
C9_Witness ==
    /\ pc = "done"
    /\ \E p, q \in Paths : p < q /\ Reported(p, "error") /\ Reported(q, "fixed")

\* C10 as stated: a file for which fix_html_entities reported an error has
\* the content it had before the call.
C10_ErrorLeavesFileUnchanged ==
    \A p \in Paths : Reported(p, "error") => disk[p] = prev[p]

====
